---- MODULE Spec2Model ----
(***************************************************************************)
(* A model of PyGCL's contrast models (GCL/models/contrast_model.py) and   *)
(* of its contrastive losses (GCL/losses/infonce.py, GCL/losses/jsd.py).   *)
(*                                                                         *)
(* Contrast models.  A forward call is one atomic step: it records its     *)
(* arguments (call), every sampler invocation in order (samplerCalls),     *)
(* every ContrastInstance handed to the loss in order (lossCalls) and its  *)
(* outcome (ret).  Tensors are opaque identities: Python's None is the     *)
(* empty tuple, a tensor t is the 1-tuple <<t>>.  The sampler and the      *)
(* Loss base class live in GCL/models/sampler.py and GCL/losses/loss.py,   *)
(* which are not among the sources; they are modelled from the             *)
(* specification and kept symbolic.                                        *)
(***************************************************************************)
EXTENDS Integers, Sequences, FiniteSets, TLC

VARIABLES obj, call, samplerCalls, lossCalls, ret, lossIn, lossRet,
          splitArgs, splitRet, evaluatorArgs, evaluatorRet

vars == <<obj, call, samplerCalls, lossCalls, ret, lossIn, lossRet,
          splitArgs, splitRet, evaluatorArgs, evaluatorRet>>

contrastVars == <<obj, call, samplerCalls, lossCalls, ret>>

lossVars == <<lossIn, lossRet>>

evalVars == <<splitArgs, splitRet, evaluatorArgs, evaluatorRet>>

(***************************************************************************)
(* Optional values                                                         *)
(***************************************************************************)
None == <<>>

Some(v) == <<v>>

Opt(S) == {None} \cup {Some(v) : v \in S}

(***************************************************************************)
(* Bounds of the input domains                                             *)
(***************************************************************************)
\* largest graph id a batch vector may hold
MaxGraphId == 1

\* number of nodes (length of a batch vector)
NumNodes == 2

Modes == {"L2L", "G2G", "G2L"}

SeqMax(s) == CHOOSE m \in {s[i] : i \in DOMAIN s} : \A i \in DOMAIN s : s[i] <= m

\* batch vectors: graph id per node, starting at graph 0 and growing by at
\* most one from node to node (the layout a PyG mini-batch has)
BatchVectors ==
    {b \in [1..NumNodes -> 0..MaxGraphId] :
        /\ b[1] = 0
        /\ \A i \in 1..(NumNodes - 1) : b[i + 1] \in {b[i], b[i] + 1}}

Batches == Opt(BatchVectors)

(***************************************************************************)
(* Samplers (GCL/models/sampler.py, modelled from the specification)       *)
(***************************************************************************)
DefaultSampler == [kind |-> "DefaultSampler", mode |-> "any", intraview_negs |-> FALSE]

DenseSampler(mode, intraview_negs) ==
    [kind |-> "DenseSampler", mode |-> mode, intraview_negs |-> intraview_negs]

get_dense_sampler(mode, intraview_negs) == DenseSampler(mode, intraview_negs)

IsDefaultSampler(s) == s.kind = "DefaultSampler"

\* keyword arguments of one sampler invocation; keys is the set of keywords
\* the call site passes, every other keyword keeps the sampler's default None
NoKw ==
    [anchor |-> None, sample |-> None, batch |-> None, neg_sample |-> None,
     pos_mask |-> None, neg_mask |-> None,
     extra_pos_mask |-> None, extra_neg_mask |-> None, keys |-> {}]

\* the mask a sampler derives for one polarity ("pos" or "neg"), symbolically:
\* a pre-supplied mask is taken as given, otherwise the mask follows from the
\* scenario (identity pairing, batch membership, or all-ones over the one graph)
DerivedMask(sampler, kw, given) ==
    [rule |-> IF given # None THEN "given"
              ELSE IF kw.batch # None THEN "batch"
              ELSE IF kw.neg_sample # None THEN "ones"
              ELSE "identity",
     given |-> given,
     batch |-> IF given = None THEN kw.batch ELSE None,
     intraview_negs |-> sampler.intraview_negs]

\* the ContrastInstance a sampler builds: neg_sample is concatenated to sample,
\* the extra masks are unioned into the derived masks
SamplerCall(sampler, kw) ==
    [anchor |-> kw.anchor,
     sample |-> kw.sample \o kw.neg_sample,
     pos_mask |-> Some([polarity |-> "pos",
                        derived |-> DerivedMask(sampler, kw, kw.pos_mask),
                        extra |-> kw.extra_pos_mask]),
     neg_mask |-> Some([polarity |-> "neg",
                        derived |-> DerivedMask(sampler, kw, kw.neg_mask),
                        extra |-> kw.extra_neg_mask])]

\* a ContrastInstance built without masks
ContrastInstance(anchor, sample) ==
    [anchor |-> anchor, sample |-> sample, pos_mask |-> None, neg_mask |-> None]

\* Loss.__call__ (GCL/losses/loss.py, modelled from the specification): the
\* loss value of an instance, symbolically; an instance without masks takes
\* the default-positive path
LossCall(loss, ci, kwargs) ==
    [loss |-> loss,
     op |-> IF ci.pos_mask = None /\ ci.neg_mask = None
            THEN "compute_default_positive" ELSE "compute",
     ci |-> ci,
     kwargs |-> kwargs]

\* (l1 + l2) * 0.5, symbolically
Average(l1, l2) == [op |-> "average", l1 |-> l1, l2 |-> l2]

(***************************************************************************)
(* Outcomes of a call                                                      *)
(***************************************************************************)
Raise(error) ==
    [kind |-> error, samplerCalls |-> <<>>, lossCalls |-> <<>>, value |-> None]

\* one direction: one ContrastInstance, one loss value
Run1(self, ci, calls) ==
    [kind |-> "ok", samplerCalls |-> calls, lossCalls |-> <<ci>>,
     value |-> Some(LossCall(self.loss, ci, self.kwargs))]

\* two directions: l1, l2 and their average
Run2(self, ci1, ci2, calls) ==
    [kind |-> "ok", samplerCalls |-> calls, lossCalls |-> <<ci1, ci2>>,
     value |-> Some(Average(LossCall(self.loss, ci1, self.kwargs),
                            LossCall(self.loss, ci2, self.kwargs)))]

\* largest graph id of a batch vector: batch.max().item()
BatchMax(batch) == SeqMax(batch[1])

\* faulty variant: only a missing batch counts as a single graph
SingleGraph_noneOnly(batch) == batch = None

\* batch is None or batch.max().item() + 1 <= 1
SingleGraph(batch) == batch = None \/ BatchMax(batch) + 1 <= 1

(***************************************************************************)
(* SingleBranchContrast                                                    *)
(***************************************************************************)
\* faulty variant: the constructor without its assertion on mode
SingleBranchContrast_init_anyMode(loss, mode, intraview_negs, kwargs) ==
    [kind |-> "ok",
     obj |-> Some([mode |-> mode,
                   sampler |-> get_dense_sampler(mode, intraview_negs),
                   loss |-> loss, kwargs |-> kwargs, cls |-> "SingleBranchContrast"])]

\* __init__: assert mode == 'G2L', then the fields
SingleBranchContrast_init(loss, mode, intraview_negs, kwargs) ==
    IF mode # "G2L"
    THEN [kind |-> "AssertionError", obj |-> None]
    ELSE [kind |-> "ok",
          obj |-> Some([mode |-> mode,
                        sampler |-> get_dense_sampler(mode, intraview_negs),
                        loss |-> loss, kwargs |-> kwargs, cls |-> "SingleBranchContrast"])]

\* forward(h, g, batch=None, hn=None, extra_pos_mask=None, extra_neg_mask=None).
\* h and g have no default: a call that leaves one out (None here) is rejected
\* by the interpreter with a TypeError before the body runs.
SingleBranchContrast_forward(self, a) ==
    IF a.h = None \/ a.g = None THEN Raise("TypeError")
    ELSE IF a.batch = None
    THEN IF a.hn = None THEN Raise("AssertionError")
         ELSE LET kw == [NoKw EXCEPT !.anchor = a.g, !.sample = a.h, !.neg_sample = a.hn,
                                     !.keys = {"anchor", "sample", "neg_sample"}]
              IN  Run1(self, SamplerCall(self.sampler, kw), <<kw>>)
    ELSE LET kw == [NoKw EXCEPT !.anchor = a.g, !.sample = a.h, !.batch = a.batch,
                                !.keys = {"anchor", "sample", "batch"}]
         IN  Run1(self, SamplerCall(self.sampler, kw), <<kw>>)

(***************************************************************************)
(* DualBranchContrast                                                      *)
(***************************************************************************)
\* faulty variant: the choice of the sampler ignores intraview_negs
DualBranchContrast_sampler_ignoresFlag(mode, intraview_negs, sampler) ==
    IF sampler # None THEN sampler[1]
    ELSE IF mode = "L2L" \/ mode = "G2G" THEN DefaultSampler
    ELSE get_dense_sampler(mode, intraview_negs)

\* the sampler __init__ stores: the caller's, or one chosen from mode and flag
DualBranchContrast_sampler(mode, intraview_negs, sampler) ==
    IF sampler # None THEN sampler[1]
    ELSE IF (mode = "L2L" \/ mode = "G2G") /\ ~intraview_negs THEN DefaultSampler
    ELSE get_dense_sampler(mode, intraview_negs)

DualBranchContrast_init(loss, mode, intraview_negs, sampler, kwargs) ==
    [kind |-> "ok",
     obj |-> Some([mode |-> mode,
                   sampler |-> DualBranchContrast_sampler(mode, intraview_negs, sampler),
                   loss |-> loss, kwargs |-> kwargs, cls |-> "DualBranchContrast"])]

\* faulty variant: the sanity check trips only when both extra masks are given
DualBranchContrast_sanity_both(self, a) ==
    IsDefaultSampler(self.sampler)
        /\ ~(a.extra_neg_mask = None \/ a.extra_pos_mask = None)

\* the sanity check at the head of forward
DualBranchContrast_sanity(self, a) ==
    IsDefaultSampler(self.sampler)
        /\ ~(a.extra_neg_mask = None /\ a.extra_pos_mask = None)

\* faulty variant: the second direction repeats the first one's roles
DualBranchContrast_sameScale_unswapped(a, x1, x2) ==
    LET keys == {"anchor", "sample", "pos_mask", "neg_mask",
                 "extra_pos_mask", "extra_neg_mask"}
    IN  << [NoKw EXCEPT !.anchor = x1, !.sample = x2,
                        !.pos_mask = a.pos_mask1, !.neg_mask = a.neg_mask1,
                        !.extra_pos_mask = a.extra_pos_mask,
                        !.extra_neg_mask = a.extra_neg_mask, !.keys = keys],
           [NoKw EXCEPT !.anchor = x1, !.sample = x2,
                        !.pos_mask = a.pos_mask2, !.neg_mask = a.neg_mask2,
                        !.extra_pos_mask = a.extra_pos_mask,
                        !.extra_neg_mask = a.extra_neg_mask, !.keys = keys] >>

\* keywords of the two sampler invocations of the L2L and G2G branches
DualBranchContrast_sameScale(a, x1, x2) ==
    LET keys == {"anchor", "sample", "pos_mask", "neg_mask",
                 "extra_pos_mask", "extra_neg_mask"}
    IN  << [NoKw EXCEPT !.anchor = x1, !.sample = x2,
                        !.pos_mask = a.pos_mask1, !.neg_mask = a.neg_mask1,
                        !.extra_pos_mask = a.extra_pos_mask,
                        !.extra_neg_mask = a.extra_neg_mask, !.keys = keys],
           [NoKw EXCEPT !.anchor = x2, !.sample = x1,
                        !.pos_mask = a.pos_mask2, !.neg_mask = a.neg_mask2,
                        !.extra_pos_mask = a.extra_pos_mask,
                        !.extra_neg_mask = a.extra_neg_mask, !.keys = keys] >>

\* keywords of the two sampler invocations of the single-graph G2L branch
DualBranchContrast_singleGraph(a) ==
    LET keys == {"anchor", "sample", "neg_sample", "extra_pos_mask", "extra_neg_mask"}
    IN  << [NoKw EXCEPT !.anchor = a.g1, !.sample = a.h2, !.neg_sample = a.h4,
                        !.extra_pos_mask = a.extra_pos_mask,
                        !.extra_neg_mask = a.extra_neg_mask, !.keys = keys],
           [NoKw EXCEPT !.anchor = a.g2, !.sample = a.h1, !.neg_sample = a.h3,
                        !.extra_pos_mask = a.extra_pos_mask,
                        !.extra_neg_mask = a.extra_neg_mask, !.keys = keys] >>

\* keywords of the two sampler invocations of the multi-graph G2L branch
DualBranchContrast_multiGraph(a) ==
    LET keys == {"anchor", "sample", "batch", "extra_pos_mask", "extra_neg_mask"}
    IN  << [NoKw EXCEPT !.anchor = a.g1, !.sample = a.h2, !.batch = a.batch,
                        !.extra_pos_mask = a.extra_pos_mask,
                        !.extra_neg_mask = a.extra_neg_mask, !.keys = keys],
           [NoKw EXCEPT !.anchor = a.g2, !.sample = a.h1, !.batch = a.batch,
                        !.extra_pos_mask = a.extra_pos_mask,
                        !.extra_neg_mask = a.extra_neg_mask, !.keys = keys] >>

\* ci1, ci2 from the sampler, then l1, l2 and (l1 + l2) * 0.5
Sample2(self, kws) ==
    Run2(self, SamplerCall(self.sampler, kws[1]), SamplerCall(self.sampler, kws[2]), kws)

\* faulty variant: the assertion forgets the two negative-sample embeddings
DualBranchContrast_singleGraphArgs_short(a) == {a.h1, a.h2, a.g1, a.g2}

\* the arguments the single-graph G2L branch asserts to be present
DualBranchContrast_singleGraphArgs(a) == {a.h1, a.h2, a.g1, a.g2, a.h3, a.h4}

DualBranchContrast_forward(self, a) ==
    IF DualBranchContrast_sanity(self, a) THEN Raise("RuntimeError")
    ELSE IF self.mode = "L2L"
    THEN IF ~(a.h1 # None /\ a.h2 # None) THEN Raise("AssertionError")
         ELSE Sample2(self, DualBranchContrast_sameScale(a, a.h1, a.h2))
    ELSE IF self.mode = "G2G"
    THEN IF ~(a.g1 # None /\ a.g2 # None) THEN Raise("AssertionError")
         ELSE Sample2(self, DualBranchContrast_sameScale(a, a.g1, a.g2))
    ELSE IF SingleGraph(a.batch)
    THEN IF ~(\A v \in DualBranchContrast_singleGraphArgs(a) : v # None)
         THEN Raise("AssertionError")
         ELSE Sample2(self, DualBranchContrast_singleGraph(a))
    ELSE IF ~((\A v \in {a.h1, a.h2, a.g1, a.g2} : v # None) /\ a.batch # None)
         THEN Raise("AssertionError")
         ELSE Sample2(self, DualBranchContrast_multiGraph(a))

(***************************************************************************)
(* BootstrapContrast                                                       *)
(***************************************************************************)
BootstrapContrast_sampler(mode, sampler) ==
    IF sampler # None THEN sampler[1]
    ELSE IF mode = "L2L" \/ mode = "G2G" THEN DefaultSampler
    ELSE get_dense_sampler(mode, FALSE)

\* BootstrapContrast stores no kwargs and passes none to the loss
BootstrapContrast_init(loss, mode, sampler) ==
    [kind |-> "ok",
     obj |-> Some([mode |-> mode,
                   sampler |-> BootstrapContrast_sampler(mode, sampler),
                   loss |-> loss, kwargs |-> None, cls |-> "BootstrapContrast"])]

\* keywords of a sampler invocation that passes anchor and sample only
BootstrapContrast_pair(anchor, sample) ==
    [NoKw EXCEPT !.anchor = anchor, !.sample = sample, !.keys = {"anchor", "sample"}]

\* keywords of a sampler invocation that passes anchor, sample and batch
BootstrapContrast_batched(anchor, sample, batch) ==
    [NoKw EXCEPT !.anchor = anchor, !.sample = sample, !.batch = batch,
                 !.keys = {"anchor", "sample", "batch"}]

\* faulty variant: each direction pairs a branch with itself
BootstrapContrast_singleGraph_sameBranch(a) ==
    << ContrastInstance(a.g1_target, a.h1_pred),
       ContrastInstance(a.g2_target, a.h2_pred) >>

\* the two mask-free instances of the single-graph G2L branch
BootstrapContrast_singleGraph(a) ==
    << ContrastInstance(a.g1_target, a.h2_pred),
       ContrastInstance(a.g2_target, a.h1_pred) >>

BootstrapContrast_forward(self, a) ==
    IF self.mode = "L2L"
    THEN IF ~(\A v \in {a.h1_pred, a.h2_pred, a.h1_target, a.h2_target} : v # None)
         THEN Raise("AssertionError")
         ELSE Sample2(self, << BootstrapContrast_pair(a.h1_target, a.h2_pred),
                               BootstrapContrast_pair(a.h2_target, a.h1_pred) >>)
    ELSE IF self.mode = "G2G"
    THEN IF ~(\A v \in {a.g1_pred, a.g2_pred, a.g1_target, a.g2_target} : v # None)
         THEN Raise("AssertionError")
         ELSE Sample2(self, << BootstrapContrast_pair(a.g1_target, a.g2_pred),
                               BootstrapContrast_pair(a.g2_target, a.g1_pred) >>)
    ELSE IF ~(\A v \in {a.h1_pred, a.h2_pred, a.g1_target, a.g2_target} : v # None)
         THEN Raise("AssertionError")
         ELSE IF SingleGraph(a.batch)
              THEN Run2(self, BootstrapContrast_singleGraph(a)[1],
                              BootstrapContrast_singleGraph(a)[2], <<>>)
              ELSE Sample2(self,
                       << BootstrapContrast_batched(a.g1_target, a.h2_pred, a.batch),
                          BootstrapContrast_batched(a.g2_target, a.h1_pred, a.batch) >>)

(***************************************************************************)
(* Input domains of the contrast models.  Every argument is absent (None)  *)
(* or a tensor of its own; the second branch's embeddings and masks may    *)
(* also be the very tensor of the first branch (h1 == h2, equal masks).    *)
(***************************************************************************)
TheLoss == "loss"

KwargsSet == {Some("kwargs")}

UserSamplers(mode) == {None, Some(DefaultSampler), Some(DenseSampler(mode, FALSE))}

SingleArgs ==
    [h : Opt({"h"}), g : Opt({"g"}), batch : Batches, hn : Opt({"hn"}),
     extra_pos_mask : Opt({"xp"}), extra_neg_mask : Opt({"xn"})]

\* Three families of argument lists, to keep the domain small: every
\* presence pattern of the embeddings with every batch; every combination of
\* extra masks with every batch; every pattern of pre-supplied masks with the
\* second branch's embeddings possibly the first branch's own tensors.
DualArgs ==
    [h1 : Opt({"h1"}), h2 : Opt({"h2"}), g1 : Opt({"g1"}), g2 : Opt({"g2"}),
     batch : Batches, h3 : Opt({"h3"}), h4 : Opt({"h4"}),
     extra_pos_mask : Opt({"xp"}), extra_neg_mask : {None},
     pos_mask1 : {None}, pos_mask2 : {None}, neg_mask1 : {None}, neg_mask2 : {None}]
    \cup
    [h1 : {Some("h1")}, h2 : {Some("h2")}, g1 : {Some("g1")}, g2 : {Some("g2")},
     batch : Batches, h3 : {Some("h3")}, h4 : {Some("h4")},
     extra_pos_mask : Opt({"xp"}), extra_neg_mask : Opt({"xn"}),
     pos_mask1 : {None}, pos_mask2 : {None}, neg_mask1 : {None}, neg_mask2 : {None}]
    \cup
    [h1 : {Some("h1")}, h2 : {Some("h2"), Some("h1")},
     g1 : {Some("g1")}, g2 : {Some("g2"), Some("g1")},
     batch : {None}, h3 : {Some("h3")}, h4 : {Some("h4")},
     extra_pos_mask : {None}, extra_neg_mask : Opt({"xn"}),
     pos_mask1 : Opt({"p1"}), pos_mask2 : Opt({"p2", "p1"}),
     neg_mask1 : Opt({"n1"}), neg_mask2 : Opt({"n2", "n1"})]

\* Two families: every presence pattern of the eight embeddings without a
\* batch; every presence pattern of the four embeddings the G2L branch reads
\* with every batch and with or without an extra mask.
BootstrapArgs ==
    [h1_pred : Opt({"h1_pred"}), h2_pred : Opt({"h2_pred"}),
     h1_target : Opt({"h1_target"}), h2_target : Opt({"h2_target"}),
     g1_pred : Opt({"g1_pred"}), g2_pred : Opt({"g2_pred"}),
     g1_target : Opt({"g1_target"}), g2_target : Opt({"g2_target"}),
     batch : {None}, extra_pos_mask : {None}]
    \cup
    [h1_pred : Opt({"h1_pred"}), h2_pred : Opt({"h2_pred"}),
     h1_target : {Some("h1_target")}, h2_target : {Some("h2_target")},
     g1_pred : {Some("g1_pred")}, g2_pred : {Some("g2_pred")},
     g1_target : Opt({"g1_target"}), g2_target : Opt({"g2_target"}),
     batch : Batches, extra_pos_mask : Opt({"xp"})]

(***************************************************************************)
(* The state machine of the contrast models                                *)
(***************************************************************************)
NoRet == [op |-> "none", kind |-> "none", value |-> None]

\* the loss state while the contrast models run: no instance drawn
NoLoss == [ci |-> ContrastInstance(None, None), tau |-> <<1, 1>>]

InitContrast ==
    /\ obj = None
    /\ call = None
    /\ samplerCalls = <<>>
    /\ lossCalls = <<>>
    /\ ret = NoRet
    /\ lossIn = NoLoss
    /\ lossRet = [variant |-> "none", op |-> "none", outcome |-> "none",
                  value |-> [kind |-> "real", lin |-> <<0, 1>>, logs |-> {}]]
    /\ splitArgs = None
    /\ splitRet = None
    /\ evaluatorArgs = None
    /\ evaluatorRet = None

\* the state after a constructor ran: the new object (none when it raised)
Constructed(r, args) ==
    /\ obj' = r.obj
    /\ call' = Some(args)
    /\ samplerCalls' = <<>>
    /\ lossCalls' = <<>>
    /\ ret' = [op |-> "init", kind |-> r.kind, value |-> None]
    /\ UNCHANGED lossVars
    /\ UNCHANGED evalVars

\* the state after a forward call: the object is left alone
Called(r, args) ==
    /\ call' = Some(args)
    /\ samplerCalls' = r.samplerCalls
    /\ lossCalls' = r.lossCalls
    /\ ret' = [op |-> "forward", kind |-> r.kind, value |-> r.value]
    /\ UNCHANGED obj
    /\ UNCHANGED lossVars
    /\ UNCHANGED evalVars

ConstructSingle ==
    \E mode \in Modes, intraview_negs \in BOOLEAN, kwargs \in KwargsSet :
        Constructed(SingleBranchContrast_init(TheLoss, mode, intraview_negs, kwargs),
                    [mode |-> mode, intraview_negs |-> intraview_negs,
                     sampler |-> None, cls |-> "SingleBranchContrast"])

ConstructDual ==
    \E mode \in Modes, intraview_negs \in BOOLEAN, kwargs \in KwargsSet :
        \E sampler \in UserSamplers(mode) :
            Constructed(
                DualBranchContrast_init(TheLoss, mode, intraview_negs, sampler, kwargs),
                [mode |-> mode, intraview_negs |-> intraview_negs,
                 sampler |-> sampler, cls |-> "DualBranchContrast"])

ConstructBootstrap ==
    \E mode \in Modes :
        \E sampler \in UserSamplers(mode) :
            Constructed(BootstrapContrast_init(TheLoss, mode, sampler),
                        [mode |-> mode, intraview_negs |-> FALSE,
                         sampler |-> sampler, cls |-> "BootstrapContrast"])

SingleForward ==
    /\ obj # None
    /\ obj[1].cls = "SingleBranchContrast"
    /\ \E a \in SingleArgs : Called(SingleBranchContrast_forward(obj[1], a), a)

DualForward ==
    /\ obj # None
    /\ obj[1].cls = "DualBranchContrast"
    /\ \E a \in DualArgs : Called(DualBranchContrast_forward(obj[1], a), a)

BootstrapForward ==
    /\ obj # None
    /\ obj[1].cls = "BootstrapContrast"
    /\ \E a \in BootstrapArgs : Called(BootstrapContrast_forward(obj[1], a), a)

Next ==
    \/ ConstructSingle
    \/ ConstructDual
    \/ ConstructBootstrap
    \/ SingleForward
    \/ DualForward
    \/ BootstrapForward

Spec == InitContrast /\ [][Next]_vars

(***************************************************************************)
(* Exact arithmetic for the losses.                                        *)
(*                                                                         *)
(* A tensor entry is a rational, <<n, d>> with d > 0 in lowest terms.  A   *)
(* sum of exponentials c1*e^q1 + ... + ck*e^qk is the set of its terms     *)
(* <<q, c>> (q rational, pairwise distinct, c a non-zero integer).  A      *)
(* scalar built with log is kept in closed form:                           *)
(*    lin + r1*log(S1) + ... + rk*log(Sk)                                  *)
(* with lin and the r rational and every S a sum of exponentials whose     *)
(* least exponent is 0 (log(e^q * S) = q + log(S) is carried out), or it   *)
(* is one of the IEEE anomalies: nan, +inf, -inf.  Rounding, overflow and  *)
(* underflow of the floating-point format are not modelled.                *)
(***************************************************************************)
Abs(x) == IF x < 0 THEN -x ELSE x

RECURSIVE GCD(_, _)
GCD(a, b) == IF b = 0 THEN a ELSE GCD(b, a % b)

Rat(n, d) ==
    LET g == GCD(Abs(n), Abs(d))
        sgn == IF d < 0 THEN -1 ELSE 1
    IN  << sgn * (n \div g), sgn * (d \div g) >>

RatInt(n) == << n, 1 >>

RatAdd(x, y) == Rat(x[1] * y[2] + y[1] * x[2], x[2] * y[2])

RatNeg(x) == << -x[1], x[2] >>

RatSub(x, y) == RatAdd(x, RatNeg(y))

RatMul(x, y) == Rat(x[1] * y[1], x[2] * y[2])

RatLeq(x, y) == x[1] * y[2] <= y[1] * x[2]

RECURSIVE SetSum(_, _)
\* the sum of f[x] over x in S (integers)
SetSum(S, f) ==
    IF S = {} THEN 0
    ELSE LET x == CHOOSE y \in S : TRUE IN f[x] + SetSum(S \ {x}, f)

\* ---- sums of exponentials ----
ExpZero == {}

\* exp(q)
Exp(q) == { << q, 1 >> }

ExpKeys(S) == { t[1] : t \in S }

ExpCoef(S, q) == IF q \in ExpKeys(S) THEN (CHOOSE t \in S : t[1] = q)[2] ELSE 0

\* S + m * T for an integer m
ExpAxpy(S, m, T) ==
    { t \in { << q, ExpCoef(S, q) + m * ExpCoef(T, q) >> : q \in ExpKeys(S) \cup ExpKeys(T) } :
        t[2] # 0 }

ExpAdd(S, T) == ExpAxpy(S, 1, T)

ExpSub(S, T) == ExpAxpy(S, -1, T)

\* m * S for an integer m
ExpScale(m, S) == ExpAxpy(ExpZero, m, S)

RECURSIVE ExpSum(_)
\* the sum of a sequence of sums of exponentials
ExpSum(seq) == IF seq = <<>> THEN ExpZero ELSE ExpAdd(Head(seq), ExpSum(Tail(seq)))

\* the least exponent of a non-empty sum
ExpLeast(S) == CHOOSE q \in ExpKeys(S) : \A r \in ExpKeys(S) : RatLeq(q, r)

\* e^(-q) * S
ExpShift(S, q) == { << RatSub(t[1], q), t[2] >> : t \in S }

\* ---- scalars ----
NaN == [kind |-> "nan", lin |-> RatInt(0), logs |-> {}]

PosInf == [kind |-> "+inf", lin |-> RatInt(0), logs |-> {}]

NegInf == [kind |-> "-inf", lin |-> RatInt(0), logs |-> {}]

Real(lin, logs) == [kind |-> "real", lin |-> lin, logs |-> logs]

Zero == Real(RatInt(0), {})

Const(q) == Real(q, {})

IsFinite(x) == x.kind = "real"

LogKeys(L) == { t[1] : t \in L }

LogCoef(L, S) == IF S \in LogKeys(L) THEN (CHOOSE t \in L : t[1] = S)[2] ELSE RatInt(0)

\* x + r * y on finite scalars
RealAxpy(x, r, y) ==
    Real(RatAdd(x.lin, RatMul(r, y.lin)),
         { t \in { << S, RatAdd(LogCoef(x.logs, S), RatMul(r, LogCoef(y.logs, S))) >> :
                       S \in LogKeys(x.logs) \cup LogKeys(y.logs) } :
             t[2] # RatInt(0) })

\* r * x for a rational r # 0 (IEEE: the sign of an infinity follows r)
Scale(r, x) ==
    IF x.kind = "real" THEN RealAxpy(Zero, r, x)
    ELSE IF x.kind = "nan" THEN NaN
    ELSE IF (x.kind = "+inf") = (r[1] > 0) THEN PosInf ELSE NegInf

Neg(x) == Scale(RatInt(-1), x)

\* x + y (IEEE: inf + -inf = nan)
Add(x, y) ==
    IF x.kind = "nan" \/ y.kind = "nan" THEN NaN
    ELSE IF x.kind = "real" /\ y.kind = "real" THEN RealAxpy(x, RatInt(1), y)
    ELSE IF x.kind = "real" THEN y
    ELSE IF y.kind = "real" THEN x
    ELSE IF x.kind = y.kind THEN x ELSE NaN

Sub(x, y) == Add(x, Neg(y))

\* x * m for a mask entry m in {0, 1} (IEEE: inf * 0 = nan)
MulMask(x, m) ==
    IF m = 1 THEN x
    ELSE IF x.kind = "real" THEN Zero ELSE NaN

\* x / c for a count c >= 0 (IEEE: 0 / 0 = nan; x / 0 is an infinity, whose
\* sign is that of x and is not tracked for a non-zero finite x: +inf stands
\* for either)
DivCount(x, c) ==
    IF c # 0 THEN Scale(Rat(1, c), x)
    ELSE IF x.kind = "real" THEN (IF x = Zero THEN NaN ELSE PosInf)
    ELSE x

RECURSIVE SumSeq(_)
\* the sum of a sequence of scalars
SumSeq(seq) == IF seq = <<>> THEN Zero ELSE Add(Head(seq), SumSeq(Tail(seq)))

\* tensor.mean() of a non-empty vector
Mean(seq) == DivCount(SumSeq(seq), Len(seq))

\* torch.log of a sum of exponentials with non-negative value: log(0) = -inf,
\* log(e^q) = q, log(e^q * S) = q + log(S)
Log(S) ==
    IF S = ExpZero THEN NegInf
    ELSE LET q == ExpLeast(S)
             S0 == ExpShift(S, q)
         IN  IF S0 = Exp(RatInt(0)) THEN Const(q)
             ELSE Real(q, { << S0, RatInt(1) >> })

(***************************************************************************)
(* Tensors of the losses: a matrix is a sequence of rows, an embedding row *)
(* a sequence of integers, a mask entry 0 or 1.                            *)
(***************************************************************************)
\* the 2-norm of an embedding row whose norm is an integer
Norm(v) ==
    LET sq == SetSum(DOMAIN v, [i \in DOMAIN v |-> v[i] * v[i]])
    IN  CHOOSE r \in 0..sq : r * r = sq

\* F.normalize of one row: v / max(norm, eps)
Normalize(v) ==
    IF Norm(v) = 0 THEN [i \in DOMAIN v |-> RatInt(0)]
    ELSE [i \in DOMAIN v |-> Rat(v[i], Norm(v))]

RECURSIVE RatSum(_)
RatSum(seq) == IF seq = <<>> THEN RatInt(0) ELSE RatAdd(Head(seq), RatSum(Tail(seq)))

\* the dot product of two rows of rationals
Dot(u, v) == RatSum([i \in DOMAIN u |-> RatMul(u[i], v[i])])

\* similarity(h1, h2): normalise the rows, then h1 @ h2.t()
similarity(h1, h2) ==
    [i \in DOMAIN h1 |-> [j \in DOMAIN h2 |-> Dot(Normalize(h1[i]), Normalize(h2[j]))]]

\* the default discriminator of the JSD losses: x @ y.t()
discriminator(x, y) ==
    [i \in DOMAIN x |->
        [j \in DOMAIN y |->
            Dot([k \in DOMAIN x[i] |-> RatInt(x[i][k])],
                [k \in DOMAIN y[j] |-> RatInt(y[j][k])])]]

\* mask.sum(dim=1)[i]
RowCount(mask, i) == SetSum(DOMAIN mask[i], mask[i])

\* mask.int().sum()
Count(mask) == SetSum(DOMAIN mask, [i \in DOMAIN mask |-> RowCount(mask, i)])

\* torch.eye(n)
Eye(n) == [i \in 1..n |-> [j \in 1..n |-> IF i = j THEN 1 ELSE 0]]

\* 1. - mask
Complement(mask) == [i \in DOMAIN mask |-> [j \in DOMAIN mask[i] |-> 1 - mask[i][j]]]

(***************************************************************************)
(* InfoNCE (GCL/losses/infonce.py)                                         *)
(***************************************************************************)
\* sim = similarity(anchor, sample) / self.tau
InfoNCE_sim(ci, tau) ==
    LET s == similarity(ci.anchor, ci.sample)
    IN  [i \in DOMAIN s |-> [j \in DOMAIN s[i] |-> RatMul(s[i][j], Rat(tau[2], tau[1]))]]

\* faulty variant: the row is divided by the row's negative count
InfoNCE_rowLoss_byNegatives(sim, pos_mask, neg_mask, i) ==
    LET cols == DOMAIN sim[i]
        exp_sim == [j \in cols |-> ExpScale(pos_mask[i][j] + neg_mask[i][j], Exp(sim[i][j]))]
        log_prob == [j \in cols |-> Sub(Const(sim[i][j]), Log(ExpSum(exp_sim)))]
        loss == [j \in cols |-> MulMask(log_prob[j], pos_mask[i][j])]
    IN  DivCount(SumSeq(loss), RowCount(neg_mask, i))

\* row i of InfoNCE.compute, up to loss.sum(dim=1) / pos_mask.sum(dim=1)
InfoNCE_rowLoss(sim, pos_mask, neg_mask, i) ==
    LET cols == DOMAIN sim[i]
        exp_sim == [j \in cols |-> ExpScale(pos_mask[i][j] + neg_mask[i][j], Exp(sim[i][j]))]
        log_prob == [j \in cols |-> Sub(Const(sim[i][j]), Log(ExpSum(exp_sim)))]
        loss == [j \in cols |-> MulMask(log_prob[j], pos_mask[i][j])]
    IN  DivCount(SumSeq(loss), RowCount(pos_mask, i))

InfoNCE_compute(ci, tau) ==
    LET sim == InfoNCE_sim(ci, tau)
        loss == [i \in DOMAIN sim |-> InfoNCE_rowLoss(sim, ci.pos_mask[1], ci.neg_mask[1], i)]
    IN  Neg(Mean(loss))

\* faulty variant: neg keeps the diagonal
InfoNCE_defaultRow_keepDiagonal(sim, i) ==
    LET row == [j \in DOMAIN sim[i] |-> Exp(sim[i][j])]
        pos == row[i]
        neg == ExpSum(row)
    IN  Neg(Sub(Log(pos), Log(ExpAdd(pos, neg))))

\* row i of InfoNCE.compute_default_positive: -log(pos / (pos + neg)), with
\* log(a / b) = log(a) - log(b) for the positive a and b here
InfoNCE_defaultRow(sim, i) ==
    LET row == [j \in DOMAIN sim[i] |-> Exp(sim[i][j])]
        pos == row[i]
        neg == ExpSub(ExpSum(row), row[i])
    IN  Neg(Sub(Log(pos), Log(ExpAdd(pos, neg))))

InfoNCE_compute_default_positive(ci, tau) ==
    LET sim == InfoNCE_sim(ci, tau)
    IN  Mean([i \in DOMAIN sim |-> InfoNCE_defaultRow(sim, i)])

(***************************************************************************)
(* JSD (GCL/losses/jsd.py)                                                 *)
(***************************************************************************)
\* np.log(2)
Log2 == Log(ExpScale(2, Exp(RatInt(0))))

\* F.softplus(x) = log(1 + exp(x))
softplus(x) == Log(ExpAdd(Exp(RatInt(0)), Exp(x)))

\* the sum of all entries of a matrix of scalars
MatrixSum(m) == SumSeq([i \in DOMAIN m |-> SumSeq(m[i])])

\* E_pos of JSD.compute
JSD_E_pos(sim, pos_mask) ==
    LET terms == [i \in DOMAIN sim |->
                     [j \in DOMAIN sim[i] |->
                         Sub(Log2, softplus(RatNeg(RatMul(sim[i][j],
                                                          RatInt(pos_mask[i][j])))))]]
    IN  DivCount(MatrixSum(terms), Count(pos_mask))

\* E_neg of JSD.compute
JSD_E_neg(sim, pos_mask, neg_mask) ==
    LET neg_sim == [i \in DOMAIN sim |->
                       [j \in DOMAIN sim[i] |-> RatMul(sim[i][j], RatInt(neg_mask[i][j]))]]
        terms == [i \in DOMAIN sim |->
                     [j \in DOMAIN sim[i] |->
                         Sub(Add(softplus(RatNeg(neg_sim[i][j])), Const(neg_sim[i][j])),
                             Log2)]]
    IN  DivCount(MatrixSum(terms), Count(neg_mask))

JSD_compute(ci) ==
    LET sim == discriminator(ci.anchor, ci.sample)
    IN  Sub(JSD_E_neg(sim, ci.pos_mask[1], ci.neg_mask[1]), JSD_E_pos(sim, ci.pos_mask[1]))

(***************************************************************************)
(* The unimplemented operations: a body of `pass` returns None.  The one   *)
(* unsupported operation that is implemented raises.                       *)
(***************************************************************************)
Returned(value) == [outcome |-> "tensor", value |-> value]

ReturnedNone == [outcome |-> "None", value |-> Zero]

Raised(error) == [outcome |-> error, value |-> Zero]

RobustInfoNCE_compute(ci) == ReturnedNone

DebiasedInfoNCE_compute_default_positive(ci) == ReturnedNone

HardnessInfoNCE_compute_default_positive(ci) == ReturnedNone

DebiasedJSD_compute_default_positive(ci) == ReturnedNone

HardnessJSD_compute_default_positive(ci) == ReturnedNone

ReweightedInfoNCE_compute_default_positive(ci) == Raised("RuntimeError")

\* the stub of a variant
Stub(variant, ci) ==
    CASE variant = "DebiasedInfoNCE" -> DebiasedInfoNCE_compute_default_positive(ci)
      [] variant = "HardnessInfoNCE" -> HardnessInfoNCE_compute_default_positive(ci)
      [] variant = "DebiasedJSD" -> DebiasedJSD_compute_default_positive(ci)
      [] variant = "HardnessJSD" -> HardnessJSD_compute_default_positive(ci)
      [] variant = "ReweightedInfoNCE" -> ReweightedInfoNCE_compute_default_positive(ci)

StubVariants ==
    {"DebiasedInfoNCE", "HardnessInfoNCE", "DebiasedJSD", "HardnessJSD", "ReweightedInfoNCE"}

(***************************************************************************)
(* DebiasedInfoNCE.compute and HardnessInfoNCE.compute: the shapes of the  *)
(* tensors up to the sum in the log-probability.  A shape is the sequence  *)
(* of the sizes of the dimensions.                                         *)
(***************************************************************************)
\* the shape of similarity(anchor, sample)
SimilarityShape(ci) == << Len(ci.anchor), Len(ci.sample) >>

\* dim is a dimension of a tensor of this shape (a scalar has dimensions -1, 0)
DimInRange(shape, dim) ==
    LET n == IF shape = <<>> THEN 1 ELSE Len(shape)
    IN  -n <= dim /\ dim < n

\* the shape of tensor.sum(dim=dim) for a dimension dim >= 0 in range
SumShape(shape, dim) ==
    [k \in 1..(Len(shape) - 1) |-> IF k <= dim THEN shape[k] ELSE shape[k + 1]]

\* DebiasedInfoNCE.compute: pos and ng are sums over dim 1 of matrices, so
\* (pos + ng) is a vector and its sum over dim 1 raises
DebiasedInfoNCE_compute(ci, tau) ==
    LET exp_sim == SimilarityShape(ci)
        pos == SumShape(exp_sim, 1)
        neg_sum == SumShape(exp_sim, 1)
        ng == neg_sum
    IN  CASE pos = ng /\ ~DimInRange(pos, 1) -> Raised("IndexError")

\* HardnessInfoNCE.compute: as above, with ng from the reweighted negatives
HardnessInfoNCE_compute(ci, tau) ==
    LET exp_sim == SimilarityShape(ci)
        pos == SumShape(exp_sim, 1)
        imp == exp_sim
        reweight_neg == SumShape(imp, 1)
        ng == reweight_neg
    IN  CASE pos = ng /\ ~DimInRange(pos, 1) -> Raised("IndexError")

(***************************************************************************)
(* Input domains of the losses                                             *)
(***************************************************************************)
\* largest number of anchor rows
MaxRows == 2

\* embedding rows: two unit vectors, and a vector that is not normalised
VecList == << <<1, 0>>, <<0, 2>>, <<-1, 0>> >>

Vecs == {VecList[k] : k \in DOMAIN VecList}

\* temperatures: 1 and 0.5
Taus == {Rat(1, 1), Rat(1, 2)}

\* instances without masks: n anchor rows against n sample rows
PlainInstances ==
    UNION {
        [anchor : [1..n -> Vecs], sample : [1..n -> Vecs],
         pos_mask : {None}, neg_mask : {None}] : n \in 1..MaxRows }

\* instances with masks: n fixed anchor rows against two fixed sample rows,
\* under every pair of 0/1 masks
MaskedInstances ==
    UNION {
        [anchor : {[i \in 1..n |-> VecList[((i - 1) % Len(VecList)) + 1]]},
         sample : {<<VecList[1], VecList[2]>>},
         pos_mask : {Some(m) : m \in [1..n -> [1..2 -> {0, 1}]]},
         neg_mask : {Some(m) : m \in [1..n -> [1..2 -> {0, 1}]]}] : n \in 1..MaxRows }

LossInputs == [ci : PlainInstances \cup MaskedInstances, tau : Taus]

(***************************************************************************)
(* The state machine of the losses: an instance and a temperature are      *)
(* drawn, then one operation of one loss variant is applied to them.       *)
(***************************************************************************)
NoLossRet == [variant |-> "none", op |-> "none", outcome |-> "none", value |-> Zero]

InitLoss ==
    /\ obj = None
    /\ call = None
    /\ samplerCalls = <<>>
    /\ lossCalls = <<>>
    /\ ret = NoRet
    /\ lossIn \in LossInputs
    /\ lossRet = NoLossRet
    /\ splitArgs = None
    /\ splitRet = None
    /\ evaluatorArgs = None
    /\ evaluatorRet = None

\* the state after operation op of a loss variant returned or raised
Applied(variant, op, r) ==
    /\ lossRet = NoLossRet
    /\ lossRet' = [variant |-> variant, op |-> op, outcome |-> r.outcome, value |-> r.value]
    /\ UNCHANGED lossIn
    /\ UNCHANGED contrastVars
    /\ UNCHANGED evalVars

HasMasks(ci) == ci.pos_mask # None /\ ci.neg_mask # None

Square(ci) == Len(ci.anchor) = Len(ci.sample)

InfoNCE_Compute ==
    /\ HasMasks(lossIn.ci)
    /\ Applied("InfoNCE", "compute", Returned(InfoNCE_compute(lossIn.ci, lossIn.tau)))

InfoNCE_ComputeDefaultPositive ==
    /\ Square(lossIn.ci)
    /\ Applied("InfoNCE", "compute_default_positive",
               Returned(InfoNCE_compute_default_positive(lossIn.ci, lossIn.tau)))

JSD_Compute ==
    /\ HasMasks(lossIn.ci)
    /\ Applied("JSD", "compute", Returned(JSD_compute(lossIn.ci)))

RobustInfoNCE_Compute ==
    Applied("RobustInfoNCE", "compute", RobustInfoNCE_compute(lossIn.ci))

Stub_ComputeDefaultPositive ==
    \E variant \in StubVariants :
        Applied(variant, "compute_default_positive", Stub(variant, lossIn.ci))

DebiasedInfoNCE_Compute ==
    /\ HasMasks(lossIn.ci)
    /\ Applied("DebiasedInfoNCE", "compute", DebiasedInfoNCE_compute(lossIn.ci, lossIn.tau))

HardnessInfoNCE_Compute ==
    /\ HasMasks(lossIn.ci)
    /\ Applied("HardnessInfoNCE", "compute", HardnessInfoNCE_compute(lossIn.ci, lossIn.tau))

NextLoss ==
    \/ InfoNCE_Compute
    \/ InfoNCE_ComputeDefaultPositive
    \/ JSD_Compute
    \/ RobustInfoNCE_Compute
    \/ Stub_ComputeDefaultPositive
    \/ DebiasedInfoNCE_Compute
    \/ HardnessInfoNCE_Compute

LossSpec == InitLoss /\ [][NextLoss]_vars

(***************************************************************************)
(* get_split (GCL/eval/eval.py)                                            *)
(*                                                                         *)
(* A ratio is an exact rational; the rounding of the float product and of  *)
(* the float sum is not modelled.  A tensor of indices is a sequence.      *)
(***************************************************************************)
\* largest dataset of which every permutation is drawn
MaxSamples == 3

\* largest number of splits
MaxSplits == 2

\* the dataset size of the docstring example
DocSamples == 10

\* the permutation behind the docstring example
DocPermutation == <<3, 4, 0, 1, 2, 5, 7, 6, 8, 9>>

RatLess(x, y) == x[1] * y[2] < y[1] * x[2]

\* int(x) of a float: truncation towards zero
int(x) == IF x[1] >= 0 THEN x[1] \div x[2] ELSE -((-x[1]) \div x[2])

\* a slice bound of Python: a negative bound counts from the end, and every
\* bound is clipped to the sequence
SliceBound(i, n) ==
    IF i < 0 THEN (IF i + n < 0 THEN 0 ELSE i + n)
    ELSE IF i > n THEN n ELSE i

\* seq[lo:hi]
Slice(seq, lo, hi) ==
    LET a == SliceBound(lo, Len(seq))
        b == SliceBound(hi, Len(seq))
    IN  IF a >= b THEN <<>> ELSE SubSeq(seq, a + 1, b)

\* range(n) as a tensor
Arange(n) == [i \in 1..n |-> i - 1]

\* the outcomes of torch.randperm(n): every permutation of 0..n-1; of the
\* docstring's dataset only two of them are drawn
randperm(n) ==
    IF n > MaxSamples THEN {Arange(n), DocPermutation}
    ELSE { p \in [1..n -> 0..(n - 1)] : \A i, j \in 1..n : p[i] = p[j] => i = j }

\* faulty variant: the test set starts at test_size
get_split_mapping_overlap(indices, train_size, test_size) ==
    [train |-> Slice(indices, 0, train_size),
     valid |-> Slice(indices, train_size, test_size + train_size),
     test |-> Slice(indices, test_size, Len(indices))]

\* the mapping appended for one permutation
get_split_mapping(indices, train_size, test_size) ==
    [train |-> Slice(indices, 0, train_size),
     valid |-> Slice(indices, train_size, test_size + train_size),
     test |-> Slice(indices, test_size + train_size, Len(indices))]

\* faulty variant: a ratio sum of exactly 1 passes
get_split_valid_inclusive(train_ratio, test_ratio) ==
    ~RatLess(RatInt(1), RatAdd(train_ratio, test_ratio))

\* assert train_ratio + test_ratio < 1
get_split_valid(train_ratio, test_ratio) ==
    RatLess(RatAdd(train_ratio, test_ratio), RatInt(1))

\* the number of calls of torch.randperm
get_split_draws(a) ==
    IF get_split_valid(a.train_ratio, a.test_ratio) /\ a.num_splits > 0
    THEN a.num_splits ELSE 0

\* faulty variant: the list is returned whatever num_splits is
get_split_return_list(num_splits, out) ==
    IF num_splits >= 1
    THEN [outcome |-> "ok", type |-> "list", out |-> out]
    ELSE [outcome |-> "IndexError", type |-> "none", out |-> <<>>]

\* return out if num_splits > 1 else out[0]
get_split_return(num_splits, out) ==
    IF num_splits > 1
    THEN [outcome |-> "ok", type |-> "list", out |-> out]
    ELSE IF Len(out) >= 1
         THEN [outcome |-> "ok", type |-> "dict", out |-> <<out[1]>>]
         ELSE [outcome |-> "IndexError", type |-> "none", out |-> <<>>]

\* get_split, with perms the permutations torch.randperm draws in turn
get_split(a, perms) ==
    IF ~get_split_valid(a.train_ratio, a.test_ratio)
    THEN [outcome |-> "AssertionError", type |-> "none", out |-> <<>>, drawn |-> <<>>]
    ELSE LET train_size == int(RatMul(RatInt(a.num_samples), a.train_ratio))
             test_size == int(RatMul(RatInt(a.num_samples), a.test_ratio))
             out == [i \in DOMAIN perms |->
                        get_split_mapping(perms[i], train_size, test_size)]
             r == get_split_return(a.num_splits, out)
         IN  [outcome |-> r.outcome, type |-> r.type, out |-> r.out, drawn |-> perms]

\* ratios: 0, 0.1, 0.4, 0.5, 0.6 and a negative one
Ratios == {Rat(0, 1), Rat(1, 10), Rat(2, 5), Rat(1, 2), Rat(3, 5), Rat(-1, 2)}

SplitInputs ==
    [num_samples : (0..MaxSamples) \cup {DocSamples}, num_splits : 0..MaxSplits,
     train_ratio : Ratios, test_ratio : Ratios]

(***************************************************************************)
(* BaseEvaluator.__init__ (GCL/eval/eval.py)                               *)
(*                                                                         *)
(* A Python value is a tagged record: a callable carries its name, an int  *)
(* its value, a list or tuple the names of the callables it holds.         *)
(***************************************************************************)
\* largest number of metrics in a list
MaxMetrics == 2

PyNone == [tag |-> "None", name |-> "", i |-> 0, items |-> <<>>]

PyInt(i) == [tag |-> "int", name |-> "", i |-> i, items |-> <<>>]

PyCallable(name) == [tag |-> "callable", name |-> name, i |-> 0, items |-> <<>>]

PyObject(name) == [tag |-> "object", name |-> name, i |-> 0, items |-> <<>>]

PyList(items) == [tag |-> "list", name |-> "", i |-> 0, items |-> items]

PyTuple(items) == [tag |-> "tuple", name |-> "", i |-> 0, items |-> items]

callable(v) == v.tag = "callable"

\* list[i]: a negative index counts from the end
Subscript(list, i) ==
    LET n == Len(list.items)
    IN  IF 0 <= i /\ i < n THEN [outcome |-> "ok", value |-> PyCallable(list.items[i + 1])]
        ELSE IF -n <= i /\ i < 0
             THEN [outcome |-> "ok", value |-> PyCallable(list.items[n + i + 1])]
             ELSE [outcome |-> "IndexError", value |-> PyNone]

\* the object when __init__ raised: no attribute is read afterwards
NoEvaluator(error) ==
    [outcome |-> error, cv |-> PyNone, split |-> PyNone, metric |-> PyNone,
     stop_metric |-> PyNone]

\* if cv is None and stop_metric is None: stop_metric = 0
BaseEvaluator_default(stop_metric, cv) ==
    IF cv = PyNone /\ stop_metric = PyNone THEN PyInt(0) ELSE stop_metric

BaseEvaluator_init(a) ==
    LET stop_metric == BaseEvaluator_default(a.stop_metric, a.cv)
        metric == IF callable(a.metric) THEN PyList(<<a.metric.name>>) ELSE a.metric
        self == [outcome |-> "ok", cv |-> a.cv, split |-> a.split, metric |-> a.metric,
                 stop_metric |-> PyNone]
    IN  IF stop_metric.tag = "int"
        THEN IF metric.tag = "list"
             THEN LET m == Subscript(metric, stop_metric.i)
                  IN  IF m.outcome = "ok" THEN [self EXCEPT !.stop_metric = m.value]
                      ELSE NoEvaluator(m.outcome)
             ELSE NoEvaluator("ValueError")
        ELSE [self EXCEPT !.stop_metric = stop_metric]

MetricNames == {"accuracy", "f1"}

MetricLists == UNION { [1..n -> MetricNames] : n \in 0..MaxMetrics }

EvaluatorInputs ==
    [split : {PyObject("split")},
     metric : {PyCallable(m) : m \in MetricNames} \cup {PyList(l) : l \in MetricLists}
              \cup {PyTuple(<<"accuracy", "f1">>)},
     stop_metric : {PyNone, PyCallable("loss")} \cup {PyInt(i) : i \in -1..MaxMetrics},
     cv : {PyNone, PyObject("KFold")}]

(***************************************************************************)
(* The state machine of the evaluation utilities: the arguments of one     *)
(* call are drawn, then the call is made.                                  *)
(***************************************************************************)
InitEval ==
    /\ obj = None
    /\ call = None
    /\ samplerCalls = <<>>
    /\ lossCalls = <<>>
    /\ ret = NoRet
    /\ lossIn = NoLoss
    /\ lossRet = NoLossRet
    /\ splitRet = None
    /\ evaluatorRet = None
    /\ \/ splitArgs \in {Some(a) : a \in SplitInputs} /\ evaluatorArgs = None
       \/ splitArgs = None /\ evaluatorArgs \in {Some(a) : a \in EvaluatorInputs}

GetSplit ==
    /\ splitArgs # None
    /\ splitRet = None
    /\ \E perms \in [1..get_split_draws(splitArgs[1]) ->
                        randperm(splitArgs[1].num_samples)] :
           splitRet' = Some(get_split(splitArgs[1], perms))
    /\ UNCHANGED <<splitArgs, evaluatorArgs, evaluatorRet>>
    /\ UNCHANGED contrastVars
    /\ UNCHANGED lossVars

ConstructEvaluator ==
    /\ evaluatorArgs # None
    /\ evaluatorRet = None
    /\ evaluatorRet' = Some(BaseEvaluator_init(evaluatorArgs[1]))
    /\ UNCHANGED <<splitArgs, splitRet, evaluatorArgs>>
    /\ UNCHANGED contrastVars
    /\ UNCHANGED lossVars

NextEval ==
    \/ GetSplit
    \/ ConstructEvaluator

EvalSpec == InitEval /\ [][NextEval]_vars

(***************************************************************************)
(* Claims about the contrast models                                        *)
(***************************************************************************)
\* a forward call of class cls has just returned or raised
Forwarded(cls) == obj # None /\ obj[1].cls = cls /\ ret.op = "forward"

\* the call left no trace: no sampler invocation, no loss invocation, no value
NothingRan == samplerCalls = <<>> /\ lossCalls = <<>> /\ ret.value = None

\* the keywords of a same-scale sampler invocation
SameScaleKw(anchor, sample, pos_mask, neg_mask, a) ==
    [anchor |-> anchor, sample |-> sample, batch |-> None, neg_sample |-> None,
     pos_mask |-> pos_mask, neg_mask |-> neg_mask,
     extra_pos_mask |-> a.extra_pos_mask, extra_neg_mask |-> a.extra_neg_mask,
     keys |-> {"anchor", "sample", "pos_mask", "neg_mask",
               "extra_pos_mask", "extra_neg_mask"}]

\* the two loss values of a two-direction call
Direction1 == ret.value[1].l1

Direction2 == ret.value[1].l2

\* C1: DualBranchContrast.forward in L2L (resp. G2G) mode, once past the sanity
\* check with h1, h2 (resp. g1, g2) present, invokes the sampler exactly twice,
\* direction 1 as (anchor=x1, sample=x2, pos_mask1, neg_mask1) and direction 2
\* as (anchor=x2, sample=x1, pos_mask2, neg_mask2); it returns the average of
\* the two direction losses, each the loss of that direction's instance; and
\* when x1 == x2 and the directions carry equal masks the two losses are equal.
C1_SwappedDirections ==
    (Forwarded("DualBranchContrast") /\ obj[1].mode \in {"L2L", "G2G"}) =>
        LET a == call[1]
            x1 == IF obj[1].mode = "L2L" THEN a.h1 ELSE a.g1
            x2 == IF obj[1].mode = "L2L" THEN a.h2 ELSE a.g2
            fails == IsDefaultSampler(obj[1].sampler)
                        /\ (a.extra_pos_mask # None \/ a.extra_neg_mask # None)
        IN  (x1 # None /\ x2 # None /\ ~fails) =>
                /\ ret.kind = "ok"
                /\ samplerCalls =
                       << SameScaleKw(x1, x2, a.pos_mask1, a.neg_mask1, a),
                          SameScaleKw(x2, x1, a.pos_mask2, a.neg_mask2, a) >>
                /\ Len(lossCalls) = 2
                /\ \A i \in 1..2 :
                       lossCalls[i] = SamplerCall(obj[1].sampler, samplerCalls[i])
                /\ ret.value = Some(Average(Direction1, Direction2))
                /\ Direction1 = LossCall(obj[1].loss, lossCalls[1], obj[1].kwargs)
                /\ Direction2 = LossCall(obj[1].loss, lossCalls[2], obj[1].kwargs)
                /\ (x1 = x2 /\ a.pos_mask1 = a.pos_mask2 /\ a.neg_mask1 = a.neg_mask2)
                       => Direction1 = Direction2

\* C1 witness: an L2L call with h1 == h2 and equal pre-supplied masks returned
C1_Witness ==
    /\ Forwarded("DualBranchContrast")
    /\ obj[1].mode = "L2L"
    /\ ret.kind = "ok"
    /\ call[1].h1 = call[1].h2
    /\ call[1].pos_mask1 = Some("p1") /\ call[1].pos_mask2 = Some("p1")
    /\ call[1].neg_mask1 = Some("n1") /\ call[1].neg_mask2 = Some("n1")
    /\ Len(samplerCalls) = 2
    /\ Direction1 = Direction2

\* the keywords of a G2L sampler invocation
CrossScaleKw(anchor, sample, neg_sample, batch, a) ==
    [anchor |-> anchor, sample |-> sample, batch |-> batch, neg_sample |-> neg_sample,
     pos_mask |-> None, neg_mask |-> None,
     extra_pos_mask |-> a.extra_pos_mask, extra_neg_mask |-> a.extra_neg_mask,
     keys |-> {"anchor", "sample", "extra_pos_mask", "extra_neg_mask"}
                 \cup (IF batch # None THEN {"batch"} ELSE {"neg_sample"})]

\* C2: DualBranchContrast.forward in G2L mode, once past the sanity check, takes
\* the single-graph path exactly when batch is None or its largest graph id is
\* 0.  The single-graph path fails unless h1, h2, g1, g2, h3, h4 are all
\* present and then samples (anchor=g1, sample=h2, neg_sample=h4) and
\* (anchor=g2, sample=h1, neg_sample=h3); the multi-graph path fails unless h1,
\* h2, g1, g2 are present and then samples (anchor=g1, sample=h2, batch) and
\* (anchor=g2, sample=h1, batch).
C2_GlobalLocalPaths ==
    (Forwarded("DualBranchContrast") /\ obj[1].mode = "G2L") =>
        LET a == call[1]
            fails == IsDefaultSampler(obj[1].sampler)
                        /\ (a.extra_pos_mask # None \/ a.extra_neg_mask # None)
            single == a.batch = None \/ \A i \in DOMAIN a.batch[1] : a.batch[1][i] = 0
            four == a.h1 # None /\ a.h2 # None /\ a.g1 # None /\ a.g2 # None
        IN  ~fails =>
                IF single
                THEN IF four /\ a.h3 # None /\ a.h4 # None
                     THEN /\ ret.kind = "ok"
                          /\ samplerCalls =
                                 << CrossScaleKw(a.g1, a.h2, a.h4, None, a),
                                    CrossScaleKw(a.g2, a.h1, a.h3, None, a) >>
                     ELSE ret.kind = "AssertionError" /\ samplerCalls = <<>>
                ELSE IF four
                     THEN /\ ret.kind = "ok"
                          /\ samplerCalls =
                                 << CrossScaleKw(a.g1, a.h2, None, a.batch, a),
                                    CrossScaleKw(a.g2, a.h1, None, a.batch, a) >>
                     ELSE ret.kind = "AssertionError" /\ samplerCalls = <<>>

\* C2 witness: a G2L call whose batch holds graph 0 only took the single-graph
\* path (it passed neg_sample and no batch)
C2_Witness ==
    /\ Forwarded("DualBranchContrast")
    /\ obj[1].mode = "G2L"
    /\ ret.kind = "ok"
    /\ call[1].batch # None
    /\ Len(samplerCalls) = 2
    /\ "neg_sample" \in samplerCalls[1].keys
    /\ samplerCalls[1].neg_sample = call[1].h4

\* C2 witness of the other path: a G2L call over two graphs passed its batch
C2_WitnessMulti ==
    /\ Forwarded("DualBranchContrast")
    /\ obj[1].mode = "G2L"
    /\ ret.kind = "ok"
    /\ Len(samplerCalls) = 2
    /\ "batch" \in samplerCalls[2].keys
    /\ samplerCalls[2].batch = call[1].batch

\* C3: SingleBranchContrast is constructed only with mode == 'G2L'.  A forward
\* call that succeeds makes one sampler invocation, builds one instance and
\* returns one loss value; with batch=None and hn given the sampler gets
\* (anchor=g, sample=h, neg_sample=hn) and no batch, with batch=None and
\* hn=None the call fails, with a batch the sampler gets (anchor=g, sample=h,
\* batch=batch) and no neg_sample.
C3_SingleBranch ==
    /\ (ret.op = "init" /\ call[1].cls = "SingleBranchContrast") =>
           /\ ret.kind = "ok" <=> call[1].mode = "G2L"
           /\ ret.kind = "ok" <=> obj # None
    /\ Forwarded("SingleBranchContrast") =>
           LET a == call[1]
           IN  /\ obj[1].mode = "G2L"
               /\ ret.kind = "ok" =>
                      /\ Len(samplerCalls) = 1
                      /\ lossCalls = << SamplerCall(obj[1].sampler, samplerCalls[1]) >>
                      /\ ret.value =
                             Some(LossCall(obj[1].loss, lossCalls[1], obj[1].kwargs))
               /\ (a.h # None /\ a.g # None) =>
                      IF a.batch = None
                      THEN IF a.hn # None
                           THEN /\ ret.kind = "ok"
                                /\ samplerCalls =
                                       << [NoKw EXCEPT !.anchor = a.g, !.sample = a.h,
                                                       !.neg_sample = a.hn,
                                                       !.keys = {"anchor", "sample",
                                                                 "neg_sample"}] >>
                           ELSE ret.kind # "ok" /\ NothingRan
                      ELSE /\ ret.kind = "ok"
                           /\ samplerCalls =
                                  << [NoKw EXCEPT !.anchor = a.g, !.sample = a.h,
                                                  !.batch = a.batch,
                                                  !.keys = {"anchor", "sample",
                                                            "batch"}] >>

\* C3 witness: a single-graph forward call (no batch, hn given) returned a loss
C3_Witness ==
    /\ Forwarded("SingleBranchContrast")
    /\ ret.kind = "ok"
    /\ call[1].batch = None
    /\ call[1].hn # None
    /\ Len(samplerCalls) = 1
    /\ ret.value # None

\* C3 witness of the constructor: a mode other than G2L was refused
C3_WitnessRefused ==
    /\ ret.op = "init"
    /\ call[1].cls = "SingleBranchContrast"
    /\ call[1].mode = "L2L"
    /\ ret.kind = "AssertionError"

\* C4: DualBranchContrast.forward raises, with no sampler and no loss
\* invocation, whenever its sampler is a DefaultSampler and extra_pos_mask or
\* extra_neg_mask is not None; with both None it never raises that error.
C4_DefaultSamplerExtraMasks ==
    Forwarded("DualBranchContrast") =>
        LET a == call[1]
        IN  IF a.extra_pos_mask = None /\ a.extra_neg_mask = None
            THEN ret.kind # "RuntimeError"
            ELSE obj[1].sampler.kind = "DefaultSampler" =>
                     ret.kind = "RuntimeError" /\ NothingRan

\* C4 witness: an auto-selected DefaultSampler met a lone extra positive mask
C4_Witness ==
    /\ Forwarded("DualBranchContrast")
    /\ obj[1].sampler.kind = "DefaultSampler"
    /\ call[1].extra_pos_mask # None
    /\ call[1].extra_neg_mask = None
    /\ call[1].h1 # None /\ call[1].h2 # None
    /\ ret.kind = "RuntimeError"

\* C5: whenever a caller supplies extra_pos_mask (or extra_neg_mask, where the
\* forward accepts one) to a contrast model's forward and the call succeeds,
\* every sampler invocation receives that mask and every ContrastInstance
\* handed to the loss carries it in its mask; none is built without.
C5_ExtraMasksReachLoss ==
    (obj # None /\ ret.op = "forward" /\ ret.kind = "ok") =>
        LET a == call[1]
        IN  /\ a.extra_pos_mask # None =>
                   /\ \A i \in DOMAIN lossCalls :
                          /\ lossCalls[i].pos_mask # None
                          /\ lossCalls[i].pos_mask[1].extra = a.extra_pos_mask
                   /\ \A i \in DOMAIN samplerCalls :
                          samplerCalls[i].extra_pos_mask = a.extra_pos_mask
            /\ (obj[1].cls # "BootstrapContrast" /\ a.extra_neg_mask # None) =>
                   /\ \A i \in DOMAIN lossCalls :
                          /\ lossCalls[i].neg_mask # None
                          /\ lossCalls[i].neg_mask[1].extra = a.extra_neg_mask
                   /\ \A i \in DOMAIN samplerCalls :
                          samplerCalls[i].extra_neg_mask = a.extra_neg_mask

\* the arguments a forward call reads on the path it takes: what it hands to
\* the sampler or to ContrastInstance as anchor, sample, neg_sample or batch
ReadArgs ==
    LET a == call[1]
        single == a.batch = None \/ \A i \in DOMAIN a.batch[1] : a.batch[1][i] = 0
    IN  IF obj[1].cls = "SingleBranchContrast"
        THEN {a.g, a.h} \cup (IF a.batch = None THEN {a.hn} ELSE {})
        ELSE IF obj[1].cls = "DualBranchContrast"
        THEN IF obj[1].mode = "L2L" THEN {a.h1, a.h2}
             ELSE IF obj[1].mode = "G2G" THEN {a.g1, a.g2}
             ELSE {a.g1, a.h2, a.g2, a.h1} \cup (IF single THEN {a.h4, a.h3} ELSE {})
        ELSE IF obj[1].mode = "L2L"
             THEN {a.h1_target, a.h2_pred, a.h2_target, a.h1_pred}
             ELSE IF obj[1].mode = "G2G"
             THEN {a.g1_target, a.g2_pred, a.g2_target, a.g1_pred}
             ELSE {a.g1_target, a.h2_pred, a.g2_target, a.h1_pred}

C8_BootstrapSingleGraph ==
    (Forwarded("BootstrapContrast") /\ obj[1].mode = "G2L") =>
        LET a == call[1]
            single == a.batch = None \/ \A i \in DOMAIN a.batch[1] : a.batch[1][i] = 0
        IN  (\A v \in {a.h1_pred, a.h2_pred, a.g1_target, a.g2_target} : v # None) =>
                /\ ret.kind = "ok"
                /\ IF single
                   THEN /\ samplerCalls = <<>>
                        /\ lossCalls =
                               << [anchor |-> a.g1_target, sample |-> a.h2_pred,
                                   pos_mask |-> None, neg_mask |-> None],
                                  [anchor |-> a.g2_target, sample |-> a.h1_pred,
                                   pos_mask |-> None, neg_mask |-> None] >>
                   ELSE /\ samplerCalls =
                               << [NoKw EXCEPT !.anchor = a.g1_target,
                                               !.sample = a.h2_pred, !.batch = a.batch,
                                               !.keys = {"anchor", "sample", "batch"}],
                                  [NoKw EXCEPT !.anchor = a.g2_target,
                                               !.sample = a.h1_pred, !.batch = a.batch,
                                               !.keys = {"anchor", "sample", "batch"}] >>
                        /\ Len(lossCalls) = 2
                        /\ \A i \in 1..2 :
                               lossCalls[i] =
                                   SamplerCall(obj[1].sampler, samplerCalls[i])

\* C8 witness: a G2L bootstrap call whose batch holds graph 0 only built its
\* two instances without the sampler
C8_Witness ==
    /\ Forwarded("BootstrapContrast")
    /\ obj[1].mode = "G2L"
    /\ call[1].batch # None
    /\ ret.kind = "ok"
    /\ samplerCalls = <<>>
    /\ Len(lossCalls) = 2
    /\ lossCalls[1].pos_mask = None

(***************************************************************************)
(* Claims about the losses                                                 *)
(***************************************************************************)
\* the operation just applied is one its loss variant leaves unimplemented
Unimplemented ==
    \/ lossRet.variant = "RobustInfoNCE" /\ lossRet.op = "compute"
    \/ /\ lossRet.variant \in {"DebiasedInfoNCE", "HardnessInfoNCE",
                               "DebiasedJSD", "HardnessJSD"}
       /\ lossRet.op = "compute_default_positive"

\* C6: calling an operation its loss variant leaves unimplemented
\* (RobustInfoNCE.compute; compute_default_positive of DebiasedInfoNCE,
\* HardnessInfoNCE, DebiasedJSD, HardnessJSD) ends in an error; it never
\* returns None or a tensor.
C6_UnimplementedFailsLoudly ==
    Unimplemented => lossRet.outcome \notin {"None", "tensor"}

\* anchor row i of the masked instance has no negative
NoNegative(i) == RowCount(lossIn.ci.neg_mask[1], i) = 0

\* anchor row i of the masked instance has no positive
NoPositive(i) == RowCount(lossIn.ci.pos_mask[1], i) = 0

AnchorRows == DOMAIN lossIn.ci.anchor

WithIdentityMasks(ci) ==
    [ci EXCEPT !.pos_mask = Some(Eye(Len(ci.anchor))),
               !.neg_mask = Some(Complement(Eye(Len(ci.anchor))))]

\* C10: for anchor and sample with the same number of rows n and every tau,
\* InfoNCE.compute_default_positive equals InfoNCE.compute on the same pair
\* with positive mask the n x n identity and negative mask its complement.
C10_DefaultPositiveIsIdentityMask ==
    (lossRet.variant = "InfoNCE" /\ lossRet.op = "compute_default_positive") =>
        lossRet.value = InfoNCE_compute(WithIdentityMasks(lossIn.ci), lossIn.tau)

\* C10 witness: compute_default_positive returned a loss that is not a plain
\* rational, over at least two rows at temperature 0.5
C10_Witness ==
    /\ lossRet.variant = "InfoNCE"
    /\ lossRet.op = "compute_default_positive"
    /\ Len(lossIn.ci.anchor) >= 2
    /\ lossIn.tau = <<1, 2>>
    /\ IsFinite(lossRet.value)
    /\ lossRet.value.logs # {}
    /\ lossRet.value = InfoNCE_compute(WithIdentityMasks(lossIn.ci), lossIn.tau)

(***************************************************************************)
(* Claims about get_split and BaseEvaluator                                *)
(***************************************************************************)
\* get_split returned its mappings
SplitReturned == splitRet # None /\ splitRet[1].outcome = "ok"

\* the ratios are proportions: neither is negative, and they pass the assertion
ValidRatios ==
    /\ RatLeq(RatInt(0), splitArgs[1].train_ratio)
    /\ RatLeq(RatInt(0), splitArgs[1].test_ratio)
    /\ RatLess(RatAdd(splitArgs[1].train_ratio, splitArgs[1].test_ratio), RatInt(1))

Range(seq) == {seq[i] : i \in DOMAIN seq}

\* the three sets of mapping m partition 0..n-1 and no index occurs twice
Partitions(m, n) ==
    /\ Range(m.train) \cup Range(m.valid) \cup Range(m.test) = 0..(n - 1)
    /\ Range(m.train) \cap Range(m.valid) = {}
    /\ Range(m.train) \cap Range(m.test) = {}
    /\ Range(m.valid) \cap Range(m.test) = {}
    /\ Len(m.train) + Len(m.valid) + Len(m.test) = n

\* C11: for every num_samples n >= 0 and every valid ratio pair, each mapping
\* get_split returns partitions 0..n-1: train, valid and test are pairwise
\* disjoint, their union is 0..n-1 and no index occurs twice.
C11_SplitPartitions ==
    (SplitReturned /\ ValidRatios) =>
        \A k \in DOMAIN splitRet[1].out :
            Partitions(splitRet[1].out[k], splitArgs[1].num_samples)

\* C11 witness: two mappings over three samples with all three sets non-empty
C11_Witness ==
    /\ SplitReturned /\ ValidRatios
    /\ splitArgs[1].num_samples = 3
    /\ Len(splitRet[1].out) = 2
    /\ splitRet[1].out[1] # splitRet[1].out[2]
    /\ \A k \in 1..2 : /\ splitRet[1].out[k].train # <<>>
                       /\ splitRet[1].out[k].valid # <<>>
                       /\ splitRet[1].out[k].test # <<>>
                       /\ Partitions(splitRet[1].out[k], 3)

\* floor of a non-negative rational
Floor(x) == x[1] \div x[2]

\* C12: in each mapping get_split returns, train has floor(n * train_ratio)
\* indices, test has floor(n * test_ratio) indices and valid has the rest; for
\* get_split(10, num_splits=1, train_ratio=0.5, test_ratio=0.4) the sizes of
\* train/valid/test are 5/1/4.
C12_SplitSizes ==
    (SplitReturned /\ ValidRatios) =>
        LET n == splitArgs[1].num_samples
            train_size == Floor(RatMul(RatInt(n), splitArgs[1].train_ratio))
            test_size == Floor(RatMul(RatInt(n), splitArgs[1].test_ratio))
        IN  \A k \in DOMAIN splitRet[1].out :
                /\ Len(splitRet[1].out[k].train) = train_size
                /\ Len(splitRet[1].out[k].test) = test_size
                /\ Len(splitRet[1].out[k].valid) = n - train_size - test_size

\* the docstring call get_split(10, num_splits=1, train_ratio=0.5,
\* test_ratio=0.4) never returns its test set with four indices
C12_DocExampleSizes ==
    (/\ SplitReturned
     /\ splitArgs[1] = [num_samples |-> DocSamples, num_splits |-> 1,
                        train_ratio |-> Rat(1, 2), test_ratio |-> Rat(2, 5)]) =>
        /\ Len(splitRet[1].out[1].train) = 5
        /\ Len(splitRet[1].out[1].valid) = 4
        /\ Len(splitRet[1].out[1].test) = 1

\* the ratios of the call sum to 1 or more
RatioSumTooLarge ==
    ~RatLess(RatAdd(splitArgs[1].train_ratio, splitArgs[1].test_ratio), RatInt(1))

\* C13: get_split with train_ratio + test_ratio >= 1 fails with a validation
\* error before any permutation is drawn or any mapping is built; with
\* train_ratio + test_ratio < 1 the validation never fails.
C13_RatioValidation ==
    splitRet # None =>
        IF RatioSumTooLarge
        THEN /\ splitRet[1].outcome = "AssertionError"
             /\ splitRet[1].drawn = <<>>
             /\ splitRet[1].out = <<>>
        ELSE splitRet[1].outcome # "AssertionError"

\* C13 witness: get_split(n, k, train_ratio=0.6, test_ratio=0.5) was refused
\* for n > 0 and k > 0
C13_Witness ==
    /\ splitRet # None
    /\ splitArgs[1].train_ratio = Rat(3, 5)
    /\ splitArgs[1].test_ratio = Rat(1, 2)
    /\ splitArgs[1].num_samples > 0
    /\ splitArgs[1].num_splits > 0
    /\ splitRet[1].outcome = "AssertionError"
    /\ splitRet[1].drawn = <<>>

\* C13 witness: a ratio sum of exactly 1 was refused
C13_WitnessBoundary ==
    /\ splitRet # None
    /\ RatAdd(splitArgs[1].train_ratio, splitArgs[1].test_ratio) = RatInt(1)
    /\ splitRet[1].outcome = "AssertionError"

\* mapping k of the result is the one sliced from the k-th permutation drawn
FromPermutation(k) ==
    /\ Len(splitRet[1].drawn[k]) = splitArgs[1].num_samples
    /\ Range(splitRet[1].drawn[k]) = 0..(splitArgs[1].num_samples - 1)
    /\ splitRet[1].out[k].train \o splitRet[1].out[k].valid \o splitRet[1].out[k].test
           = splitRet[1].drawn[k]

C14_WitnessSingle ==
    /\ SplitReturned /\ ValidRatios
    /\ splitArgs[1].num_splits = 1
    /\ splitArgs[1].num_samples >= 2
    /\ splitRet[1].type = "dict"

\* __init__ returned: the evaluator exists
EvaluatorConstructed == evaluatorRet # None /\ evaluatorRet[1].outcome = "ok"

\* the first metric of the metric argument: the callable itself, or the head
\* of the list
FirstMetric ==
    IF callable(evaluatorArgs[1].metric) THEN evaluatorArgs[1].metric
    ELSE PyCallable(Head(evaluatorArgs[1].metric.items))

\* C15: a BaseEvaluator constructed with stop_metric=None, with or without a
\* cross-validator, has the first metric (the metric itself when a single
\* callable is given) as its stopping metric; with an integer stop_metric i
\* and a list of metrics the stopping metric is metric[i].
C15_StopMetricDefault ==
    EvaluatorConstructed =>
        /\ (/\ evaluatorArgs[1].stop_metric = PyNone
            /\ \/ callable(evaluatorArgs[1].metric)
               \/ /\ evaluatorArgs[1].metric.tag = "list"
                  /\ evaluatorArgs[1].metric.items # <<>>) =>
               evaluatorRet[1].stop_metric = FirstMetric
        /\ (/\ evaluatorArgs[1].stop_metric.tag = "int"
            /\ evaluatorArgs[1].metric.tag = "list") =>
               evaluatorRet[1].stop_metric =
                   Subscript(evaluatorArgs[1].metric, evaluatorArgs[1].stop_metric.i).value

\* what the constructor does with stop_metric=None: the first metric without
\* a cross-validator, None with one
C15_DefaultOnlyWithoutCv ==
    (/\ EvaluatorConstructed
     /\ evaluatorArgs[1].stop_metric = PyNone
     /\ \/ callable(evaluatorArgs[1].metric)
        \/ evaluatorArgs[1].metric.tag = "list" /\ evaluatorArgs[1].metric.items # <<>>) =>
        evaluatorRet[1].stop_metric =
            IF evaluatorArgs[1].cv = PyNone THEN FirstMetric ELSE PyNone

(***************************************************************************)
(* Claims about the debiased and hardness-aware losses                     *)
(***************************************************************************)
\* every anchor row of the masked instance has a positive and a negative
EveryRowContrasted == \A i \in AnchorRows : ~NoPositive(i) /\ ~NoNegative(i)

\* C16: DebiasedInfoNCE.compute and HardnessInfoNCE.compute, given an instance
\* in which every anchor row has at least one positive and one negative,
\* return a scalar (the one obtained from the P-masked per-row log-probabilities
\* by the final reduction of InfoNCE.compute).  Stated here is the part every
\* reading of the claim needs: the call returns a tensor.
C16_ReturnsReducedScalar ==
    (/\ lossRet.op = "compute"
     /\ lossRet.variant \in {"DebiasedInfoNCE", "HardnessInfoNCE"}
     /\ EveryRowContrasted) =>
        lossRet.outcome = "tensor"

\* what the two operations do on every masked instance: raise IndexError
C16_AlwaysRaises ==
    (lossRet.op = "compute" /\ lossRet.variant \in {"DebiasedInfoNCE", "HardnessInfoNCE"}) =>
        lossRet.outcome = "IndexError"

(***************************************************************************)
(* Claims about the life of a contrast model                               *)
(***************************************************************************)
\* the object is a DualBranchContrast or a BootstrapContrast
TwoBranch == obj # None /\ obj[1].cls \in {"DualBranchContrast", "BootstrapContrast"}

\* right after construction the sampler is the caller's if one was given,
\* otherwise a DefaultSampler exactly when mode is L2L or G2G and intra-view
\* negatives are off, and the dense sampler of the mode in every other case
SamplerResolved ==
    (TwoBranch /\ ret.op = "init") =>
        /\ obj[1].mode = call[1].mode
        /\ obj[1].loss = TheLoss
        /\ IF call[1].sampler # None THEN obj[1].sampler = call[1].sampler[1]
           ELSE IF call[1].mode \in {"L2L", "G2G"} /\ ~call[1].intraview_negs
                THEN IsDefaultSampler(obj[1].sampler)
                ELSE /\ ~IsDefaultSampler(obj[1].sampler)
                     /\ obj[1].sampler = DenseSampler(call[1].mode, call[1].intraview_negs)

\* the outcome of the forward call just made is the one its arguments give on
\* the object as constructed
OutcomeFromArguments ==
    /\ Forwarded("DualBranchContrast") =>
           LET r == DualBranchContrast_forward(obj[1], call[1])
           IN  /\ ret.kind = r.kind /\ ret.value = r.value
               /\ samplerCalls = r.samplerCalls /\ lossCalls = r.lossCalls
    /\ Forwarded("BootstrapContrast") =>
           LET r == BootstrapContrast_forward(obj[1], call[1])
           IN  /\ ret.kind = r.kind /\ ret.value = r.value
               /\ samplerCalls = r.samplerCalls /\ lossCalls = r.lossCalls

\* a forward call, successful or failed, leaves sampler, loss, mode and kwargs
ForwardKeepsObject == (TwoBranch /\ ret'.op = "forward") => obj' = obj

\* C17: the sampler of a DualBranchContrast or BootstrapContrast is resolved
\* once at construction (the caller's if given; otherwise a DefaultSampler
\* exactly when mode is L2L or G2G and intra-view negatives are off, a dense
\* sampler in every other case); every forward call, successful or failed,
\* leaves the model's sampler, loss, mode and kwargs unchanged, so the outcome
\* of a call depends only on its arguments.
C17_SamplerResolvedOnce ==
    /\ [](SamplerResolved /\ OutcomeFromArguments)
    /\ [][ForwardKeepsObject]_vars

\* C17 witness: a DualBranchContrast given no sampler, with intra-view
\* negatives on in mode L2L, holds a dense sampler after construction
C17_Witness ==
    /\ TwoBranch /\ ret.op = "init"
    /\ obj[1].cls = "DualBranchContrast"
    /\ call[1].sampler = None
    /\ call[1].mode = "L2L" /\ call[1].intraview_negs
    /\ obj[1].sampler = DenseSampler("L2L", TRUE)

\* C17 witness: a failed forward call on a DualBranchContrast that still holds
\* the dense sampler its constructor chose for intra-view negatives in mode L2L
C17_WitnessFailedCall ==
    /\ Forwarded("DualBranchContrast")
    /\ obj[1].mode = "L2L"
    /\ obj[1].sampler = DenseSampler("L2L", TRUE)
    /\ ret.kind # "ok"
    /\ samplerCalls = <<>>

====
